---- MODULE Spec2Model ----
(***************************************************************************)
(* State-machine model of the document-harvesting pipeline of              *)
(* agent-bridge: scripts/scraper.py (registry crawl, organisation          *)
(* resolver, URL classifier, catalog) .                                    *)
(*                                                                         *)
(* Python strings are TLA+ strings; Len, \o and SubSeq act on them         *)
(* character by character, so str.strip, str.lower, str.endswith,          *)
(* str.split and urlparse are computed, not assumed.                       *)
(***************************************************************************)
EXTENDS Integers, Sequences, FiniteSets, TLC

(***************************************************************************)
(* Bounds of the model.                                                    *)
(***************************************************************************)
\* the registry holds at most MaxEntries entries
MaxEntries == 2
\* fetch_docs(limit) is run with a page size in 1..MaxLimit
MaxLimit == 2
\* sanitize_filename is studied on the strings of at most MaxNameLen characters
\* of its alphabet, alone and at the end of a long name
MaxNameLen == 3
\* the catalog the downloader reads holds at most MaxRows rows
MaxRows == 2

(***************************************************************************)
(* Python string primitives.                                               *)
(***************************************************************************)
Char(s, i) == SubSeq(s, i, i)

\* s[i:] and s[:i] for 0 <= i <= len(s)
Drop(s, i) == SubSeq(s, i + 1, Len(s))
Take(s, i) == SubSeq(s, 1, i)

\* c in chars, for a one-character string c
InChars(c, chars) == \E i \in 1..Len(chars) : Char(chars, i) = c

\* str.startswith / str.endswith / the `in` operator on strings
StartsWith(s, t) == Len(s) >= Len(t) /\ Take(s, Len(t)) = t
EndsWith(s, t) == Len(s) >= Len(t) /\ Drop(s, Len(s) - Len(t)) = t
Contains(s, t) == \E i \in 0..(Len(s) - Len(t)) : SubSeq(s, i + 1, i + Len(t)) = t

\* str.find on a set of delimiters: 0-based index of the first character of s
\* that is in chars, or len(s) when there is none
FindAny(s, chars) ==
    IF \E i \in 1..Len(s) : InChars(Char(s, i), chars)
    THEN (CHOOSE i \in 1..Len(s) :
            /\ InChars(Char(s, i), chars)
            /\ \A j \in 1..(i - 1) : ~InChars(Char(s, j), chars)) - 1
    ELSE Len(s)

\* 0-based index of the last character of s that is in chars, or -1
RFindAny(s, chars) ==
    IF \E i \in 1..Len(s) : InChars(Char(s, i), chars)
    THEN (CHOOSE i \in 1..Len(s) :
            /\ InChars(Char(s, i), chars)
            /\ \A j \in (i + 1)..Len(s) : ~InChars(Char(s, j), chars)) - 1
    ELSE -1

\* str.strip(chars): drop leading and trailing characters that are in chars
StripChars(s, chars) ==
    LET keep == {i \in 1..Len(s) : ~InChars(Char(s, i), chars)}
    IN  IF keep = {} THEN ""
        ELSE SubSeq(s, CHOOSE i \in keep : \A j \in keep : i <= j,
                       CHOOSE i \in keep : \A j \in keep : i >= j)

\* str.strip(): whitespace
Whitespace == " \t\n\r"
Strip(s) == StripChars(s, Whitespace)

UpperAlpha == "ABCDEFGHIJKLMNOPQRSTUVWXYZ"
LowerAlpha == "abcdefghijklmnopqrstuvwxyz"
Digits == "0123456789"

LowerChar(c) ==
    IF InChars(c, UpperAlpha)
    THEN Char(LowerAlpha, CHOOSE i \in 1..Len(UpperAlpha) : Char(UpperAlpha, i) = c)
    ELSE c

\* str.lower(): character by character, from the left
Lower(s) ==
    LET low[i \in 0..Len(s)] == IF i = 0 THEN "" ELSE low[i - 1] \o LowerChar(Char(s, i))
    IN  low[Len(s)]

(***************************************************************************)
(* urllib.parse.urlparse, as far as classify_url reads it: .hostname and   *)
(* .path .                                                                 *)
(***************************************************************************)
SchemeChars == UpperAlpha \o LowerAlpha \o Digits \o "+-."

\* urlsplit: a scheme is a leading run of scheme characters, starting with a
\* letter, that ends at the first ":"
HasScheme(u) ==
    LET i == FindAny(u, ":")
    IN  /\ 0 < i /\ i < Len(u)
        /\ InChars(Char(u, 1), UpperAlpha \o LowerAlpha)
        /\ \A j \in 1..i : InChars(Char(u, j), SchemeChars)

AfterScheme(u) == IF HasScheme(u) THEN Drop(u, FindAny(u, ":") + 1) ELSE u

\* the network location: what follows "//" up to the first of "/", "?", "#"
Netloc(u) ==
    LET r == AfterScheme(u)
    IN  IF StartsWith(r, "//")
        THEN Take(Drop(r, 2), FindAny(Drop(r, 2), "/?#"))
        ELSE ""

\* urlparse, unlike urlsplit, cuts the parameters (";...") off the last path
\* segment, for the schemes that have them: http, https and none among them
SplitParams(p) ==
    LET k == RFindAny(p, "/") + 1
        i == FindAny(Drop(p, k), ";")
    IN  Take(p, k + i)

\* .path: what follows the network location, up to the query or the
\* fragment, without the parameters
UrlPath(u) ==
    LET r == AfterScheme(u)
        p == IF StartsWith(r, "//") THEN Drop(Drop(r, 2), FindAny(Drop(r, 2), "/?#")) ELSE r
    IN  SplitParams(Take(p, FindAny(p, "?#")))

\* .hostname: the netloc without user-info and port, lowercased; None becomes ""
Hostname(u) ==
    LET n == Netloc(u)
        h == Drop(n, RFindAny(n, "@") + 1)
    IN  Lower(Take(h, FindAny(h, ":")))

(***************************************************************************)
(* classify_url: the pure parts.                                           *)
(***************************************************************************)
viewer_hosts == <<"arcgis.com", "maps.arcgis.com", "sharepoint.com", "google.com", "drive.google.com">>

\* all() in place of any() (mutant of IsViewer)
IsViewerAll(host) == \A i \in 1..Len(viewer_hosts) : EndsWith(host, viewer_hosts[i])

\* any(host.endswith(h) for h in viewer_hosts)
IsViewer(host) == \E i \in 1..Len(viewer_hosts) : EndsWith(host, viewer_hosts[i])

\* (urlparse(u).path or "").lower()
LowerPath(u) == Lower(UrlPath(u))

\* headers.get("Content-Type","").split(";")[0].strip().lower()
DeclaredType(header) == Lower(Strip(Take(header, FindAny(header, ";"))))

\* a response of the transport: either the request raised RequestException
\* (err), or it carries a status code, a Content-Type header and the URL reached
\* after redirects
Raised == [err |-> TRUE, status |-> 0, header |-> "", url |-> ""]
Response(status, header, url) == [err |-> FALSE, status |-> status, header |-> header, url |-> url]

\* the fallback on a failed status only (mutant of NeedsFallback)
NeedsFallbackOnStatus(status, ctype) == status >= 400

\* status >= 400 or (not ctype)
NeedsFallback(status, ctype) == status >= 400 \/ ctype = ""

\* the application/ test ahead of the html test (mutant of FileKind)
FileKindDocFirst(ctype, ext) ==
    IF Contains(ctype, "pdf") \/ EndsWith(ext, ".pdf") THEN "pdf"
    ELSE IF StartsWith(ctype, "image/") THEN "image"
    ELSE IF StartsWith(ctype, "application/") THEN "doc"
    ELSE IF Contains(ctype, "html") THEN "html"
    ELSE "unknown"

\* the conditional expression that maps content type and path to a file kind
FileKind(ctype, ext) ==
    IF Contains(ctype, "pdf") \/ EndsWith(ext, ".pdf") THEN "pdf"
    ELSE IF StartsWith(ctype, "image/") THEN "image"
    ELSE IF Contains(ctype, "html") THEN "html"
    ELSE IF StartsWith(ctype, "application/") THEN "doc"
    ELSE "unknown"

\* the 4-tuples classify_url returns
Result(final, ctype, status, kind) ==
    [final |-> final, ctype |-> ctype, status |-> status, kind |-> kind]
EmptyResult == Result("", "", 0, "unknown")
LandingResult(u) == Result(u, "", 0, "landing")
\* the except clause returning the empty-URL tuple (mutant of DegradedResult)
DegradedAsEmpty(u) == Result("", "", 0, "unknown")
DegradedResult(u) == Result(u, "", 0, "unknown")

(***************************************************************************)
(* The remote services: what the registry holds and what the transport     *)
(* may answer.                                                             *)
(***************************************************************************)
\* URLs of the registry: a viewer, a document server (declared with a leading
\* space, which the script strips), a landing page
ViewerURL == "https://drive.google.com/v"
FileURL == " http://a.io/y"
LandingURL == "http://a.io/"

Fields(o, p, u, l) == [org |-> o, plan |-> p, url |-> u, landing |-> l]

\* the entries the registry may hold: each shape of entry the loop body
\* distinguishes (no, a first or a repeated organisation; an empty, a viewer or
\* a probed URL; with and without a landing URL; a second plan)
EntryFields ==
    {Fields("", "lp1", "", ""),
     Fields("7", "lp1", ViewerURL, ""),
     Fields("7", "lp1", ViewerURL, LandingURL),
     Fields("7", "lp1", FileURL, LandingURL),
     Fields("7", "lp2", FileURL, ""),
     Fields("7", "lp2", FileURL, LandingURL),
     Fields("8", "lp1", ViewerURL, LandingURL)}

\* an entity of the registry; its reference is its position in the registry
Entry(f, i) ==
    [reference |-> "r" \o Char(Digits, i + 1), org |-> f.org, plan |-> f.plan,
     url |-> f.url, landing |-> f.landing]

\* the "entities" arrays the registry may serve for {limit, offset}: the entities
\* at positions offset+1 .. offset+limit of a registry that holds `size` entities
\* and has served `served` so far (what it served before, it serves again)
PageLen(size, off, lim) == IF size - off <= 0 THEN 0 ELSE IF size - off < lim THEN size - off ELSE lim
Pages(size, served, off, lim) ==
    {[i \in 1..PageLen(size, off, lim) |-> Entry(fs[i], off + i)] :
        fs \in {f \in [1..PageLen(size, off, lim) -> EntryFields] :
                  \A i \in DOMAIN f :
                      off + i <= Len(served) => Entry(f[i], off + i) = served[off + i]}}

\* the JSON documents the entity endpoint may serve for an organisation
OrgJson == {[prefix |-> "la", reference |-> "A", name |-> "Alpha"],
            [prefix |-> "", reference |-> "B", name |-> "Beta"]}

\* URLs classify_url is studied on, on its own: viewers (exact hosts, a
\* subdomain, upper case, user-info and port, a host that merely ends like one),
\* documents with and without a .pdf path, with a query and with parameters,
\* a URL without scheme, no URL
ClassifyURLs ==
    {"", ViewerURL, "http://maps.arcgis.com/", "https://sharepoint.com/a.pdf",
     "HTTPS://Drive.Google.COM/f", "http://u@google.com:8080/x", "http://arcgis.com",
     "https://x.sharepoint.com/s", "http://notgoogle.com/f",
     "http://google.com.a.io/f", "a.io/x.pdf", "http://a.io/x.pdf", "http://a.io/X.PDF?dl=1",
     "http://a.io/pdf", "http://a.io/x.pdf;v=1", FileURL}

\* Content-Type headers a server may send
Headers ==
    {"", " ;q=1", "application/pdf", "Application/PDF; name=x", "image/png", "image/x-pdf",
     "text/html; charset=UTF-8", "application/xhtml+xml", "application/msword", "text/plain"}

\* where a probed URL may redirect to
RedirectURL == "http://cdn.io/f"

\* the URLs classify_url is called with, and the Content-Type headers it reads
CalledURLs == {Strip(f.url) : f \in EntryFields} \cup {Strip(u) : u \in ClassifyURLs}

\* urlparse and the header parsing, evaluated once for each URL and each header
\* of the model; the actions look the values up
HostTable == [u \in CalledURLs |-> Hostname(u)]
ExtTable == [u \in CalledURLs |-> LowerPath(u)]
TypeTable == [h \in Headers |-> DeclaredType(h)]

\* host = urlparse(u).hostname or ""
Host(u) == HostTable[u]
\* ext = (urlparse(u).path or "").lower()
Ext(u) == ExtTable[u]
\* ctype = h.headers.get("Content-Type","").split(";")[0].strip().lower()
ContentType(header) == TypeTable[header]

\* the return after the try block, from the response r that was used last
ProbedResult(u, r) ==
    Result(r.url, ContentType(r.header), r.status, FileKind(ContentType(r.header), Ext(u)))

\* answers of the transport to a probe of u during a crawl
CrawlResponses(u) ==
    {Raised, Response(200, "application/pdf", u), Response(200, "", u),
     Response(404, "text/html; charset=UTF-8", RedirectURL)}

\* answers of the transport to a probe of u
ClassifyResponses(u) ==
    {Raised} \cup {Response(st, h, f) : st \in {200, 404}, h \in Headers, f \in {u, RedirectURL}}

(***************************************************************************)
(* State.                                                                  *)
(***************************************************************************)
VARIABLES
    registry_size,  \* the number of entities the registry holds
    registry,       \* the entities the registry has served so far, in its order
    limit,          \* params["limit"] of fetch_docs
    offset,         \* params["offset"] of fetch_docs
    page,           \* items of the current page that fetch_docs has yet to yield
    page_requests,  \* history: the offsets of the pages requested so far
    pc,             \* position of the script
    doc_count,      \* doc_count: entries yielded so far
    d,              \* the entry being processed
    org,            \* resolve_org's return value for d
    org_cache,      \* org_cache: entity id -> organisation
    org_lookups,    \* history: the entity ids looked up successfully, in order
    seen,           \* seen: the dedup keys
    entry_keys,     \* history: the dedup key of each entry that reached the dedup test
    rows,           \* rows: the catalog records
    row_results,    \* history: what classify_url returned for each record of rows
    file_url,       \* file_url, the argument of classify_url
    landing_url,    \* landing_url
    probes,         \* history: the requests of the current classify_url call
    head_resp,      \* h, the response to the header-only probe
    get_resp,       \* g, the response to the ranged GET
    result,         \* what classify_url returned
    classify_calls, \* history: number of classify_url calls
    probe_count,    \* history: number of probe requests of the whole run
    catalog,        \* local_plan_documents_clean.csv: whether it exists, and its rows
    raised,         \* the exception that ended the script, "" while there is none
    report,         \* the message the script prints after the loop, "" before
    sanitize_call,  \* a call of sanitize_filename: its arguments and what it returned
    options,        \* the arguments of download_documents
    run,            \* download_documents runs for the "first" or the "second" time
    dl_pc,          \* position of download_documents
    next_row,       \* the number of rows the csv reader has handed out
    stats,          \* stats
    failed_downloads, \* failed_downloads
    url,            \* url of the row being downloaded
    filepath,       \* filepath of the row being downloaded
    files,          \* the files under DOWNLOAD_DIR: path -> whose body, and whether it is whole
    fetches,        \* history: the URLs requested in this run
    outcomes,       \* history: the outcome of each row visited in this run
    failures_log,   \* download_failures.csv: whether it exists, and its rows
    prev_stats,     \* history: the stats of the first run
    dl_raised,      \* the exception that ended download_documents, "" while there is none
    net             \* the remote calls: the kind of the last one, whether the process slept since,
                    \* and what lay between it and the call before

vars == <<registry_size, registry, limit, offset, page, page_requests, pc, doc_count, d, org, org_cache,
          org_lookups, seen, entry_keys, rows, row_results, file_url, landing_url, probes,
          head_resp, get_resp, result, classify_calls, probe_count, catalog, raised, report, sanitize_call,
          options, run, dl_pc, next_row, stats, failed_downloads, url, filepath, files, fetches,
          outcomes, failures_log, prev_stats, dl_raised, net>>

NoFile == [exists |-> FALSE, rows |-> <<>>]
FileOf(records) == [exists |-> TRUE, rows |-> records]
NoEntry == [reference |-> "", org |-> "", plan |-> "", url |-> "", landing |-> ""]
NoOrg == [lpa_curie |-> "", lpa_name |-> ""]
NoResult == Result("", "", -1, "")

fetchVars == <<registry_size, registry, limit, offset, page, page_requests, doc_count, d>>
orgVars == <<org, org_cache, org_lookups>>
dedupVars == <<seen, entry_keys>>
classifyVars == <<file_url, landing_url, probes, head_resp, get_resp, result, classify_calls, probe_count>>
rowVars == <<rows, row_results>>
scraperVars == <<fetchVars, orgVars, dedupVars, classifyVars, rowVars, pc, catalog, raised, report>>
runVars == <<next_row, stats, failed_downloads, url, filepath, fetches, outcomes, dl_raised>>
downloadVars == <<options, run, dl_pc, runVars, files, failures_log, prev_stats>>
downloaderVars == <<sanitize_call, downloadVars>>

\* no remote call has been made
NoNet == [last |-> "", slept |-> FALSE, gap |-> ""]
\* requests.get / requests.head is called and answers (or raises) before the
\* next statement runs: gap tells whether the process slept since the call before
Call(n, kind) ==
    [last |-> kind, slept |-> FALSE,
     gap |-> IF n.last = "" THEN "first" ELSE IF n.slept THEN "slept" ELSE "none"]
\* time.sleep
Sleep(n) == [n EXCEPT !.slept = TRUE]

\* no call of sanitize_filename is under study
NoCall == [s |-> "", max_len |-> 0, returned |-> FALSE, ret |-> ""]

\* max_downloads: None, or an integer
NoMax == [given |-> FALSE, n |-> 0]
Max(n) == [given |-> TRUE, n |-> n]
\* the defaults of download_documents; file_kinds = <<>> stands for None
DefaultOptions ==
    [max_downloads |-> NoMax, skip_existing |-> TRUE, file_kinds |-> <<>>, log_failures |-> TRUE]
\* stats, as initialised
ZeroStats ==
    [total |-> 0, skipped_no_url |-> 0, skipped_exists |-> 0, skipped_kind |-> 0,
     downloaded |-> 0, failed |-> 0]

\* download_documents has not been called
DownloadIdle ==
    /\ options = DefaultOptions /\ run = "first" /\ dl_pc = "idle"
    /\ next_row = 0 /\ stats = ZeroStats /\ failed_downloads = <<>>
    /\ url = "" /\ filepath = "" /\ files = <<>> /\ fetches = <<>> /\ outcomes = <<>>
    /\ failures_log = NoFile /\ prev_stats = ZeroStats /\ dl_raised = ""

\* downloader.py is not running
DownloaderIdle == sanitize_call = NoCall /\ DownloadIdle

Init ==
    /\ registry_size \in 0..MaxEntries
    /\ registry = <<>>
    /\ limit \in 1..MaxLimit
    /\ offset = 0
    /\ page = <<>>
    /\ page_requests = <<>>
    /\ pc = "fetch"
    /\ doc_count = 0
    /\ d = NoEntry
    /\ org = NoOrg
    /\ org_cache = <<>>
    /\ org_lookups = <<>>
    /\ seen = {}
    /\ entry_keys = <<>>
    /\ rows = <<>>
    /\ row_results = <<>>
    /\ file_url = ""
    /\ landing_url = ""
    /\ probes = <<>>
    /\ head_resp = Raised
    /\ get_resp = Raised
    /\ result = NoResult
    /\ classify_calls = 0
    /\ probe_count = 0
    /\ catalog = NoFile
    /\ raised = ""
    /\ report = ""
    /\ DownloaderIdle
    /\ net = NoNet

(***************************************************************************)
(* fetch_docs: the paginating generator.                                   *)
(***************************************************************************)
\* the cursor advanced by one entity, not by one page (mutant of NextOffset)
NextOffsetByOne(off, lim) == off + 1

\* params["offset"] += params["limit"]
NextOffset(off, lim) == off + lim

\* requests.get(BASE, params) answers; an empty page ends the generator, and
\* with it the for loop of the script
FetchPage(items) ==
    /\ pc = "fetch"
    /\ page_requests' = Append(page_requests, offset)
    /\ registry' = IF offset >= Len(registry) THEN registry \o items ELSE registry
    /\ page' = items
    /\ pc' = IF items = <<>> THEN "write" ELSE "yield"
    /\ UNCHANGED <<registry_size, limit, offset, doc_count, d>>
    /\ UNCHANGED <<orgVars, dedupVars, classifyVars, rowVars, catalog, raised, report>>
    /\ UNCHANGED downloaderVars
    /\ net' = Call(net, "page")

\* what a lookup may raise: requests.get (network), raise_for_status (status
\* >= 400), r.json() (a body that is not JSON)
LookupErrors == {"ConnectionError", "HTTPError", "JSONDecodeError"}

\* requests.get raises, or raise_for_status / r.json() does: nothing catches it
FetchPageFail(e) ==
    /\ pc = "fetch"
    /\ page_requests' = Append(page_requests, offset)
    /\ raised' = e
    /\ pc' = "aborted"
    /\ UNCHANGED <<registry_size, registry, limit, offset, page, doc_count, d>>
    /\ UNCHANGED <<orgVars, dedupVars, classifyVars, rowVars, catalog, report>>
    /\ UNCHANGED downloaderVars
    /\ net' = Call(net, "page")

\* for it in items: yield it    (and the loop header of the script: doc_count += 1)
YieldItem ==
    /\ pc = "yield"
    /\ page # <<>>
    /\ d' = Head(page)
    /\ page' = Tail(page)
    /\ doc_count' = doc_count + 1
    /\ pc' = "resolve"
    /\ UNCHANGED <<registry_size, registry, limit, offset, page_requests>>
    /\ UNCHANGED <<orgVars, dedupVars, classifyVars, rowVars, catalog, raised, report>>
    /\ UNCHANGED downloaderVars
    /\ UNCHANGED net

\* the page is used up: advance the cursor, sleep, loop
AdvancePage ==
    /\ pc = "yield"
    /\ page = <<>>
    /\ offset' = NextOffset(offset, limit)
    /\ pc' = "fetch"
    /\ UNCHANGED <<registry_size, registry, limit, page, page_requests, doc_count, d>>
    /\ UNCHANGED <<orgVars, dedupVars, classifyVars, rowVars, catalog, raised, report>>
    /\ UNCHANGED downloaderVars
    /\ net' = Sleep(net)

(***************************************************************************)
(* resolve_org.                                                            *)
(***************************************************************************)
\* str(d.get("organisation-entity","")).strip()
EntityId(e) == Strip(e.org)

\* a cache that is never hit (mutant of Cached)
CachedNever(entity_id, cache) == FALSE

\* entity_id in org_cache
Cached(entity_id, cache) == entity_id \in DOMAIN cache

\* f"{prefix}:{reference}".strip(":") and the name
OrgOf(j) == [lpa_curie |-> StripChars(j.prefix \o ":" \o j.reference, ":"), lpa_name |-> j.name]

\* if not entity_id: return the empty organisation
ResolveOrgEmpty ==
    /\ pc = "resolve"
    /\ EntityId(d) = ""
    /\ org' = NoOrg
    /\ pc' = "dedup"
    /\ UNCHANGED <<org_cache, org_lookups>>
    /\ UNCHANGED <<fetchVars, dedupVars, classifyVars, rowVars, catalog, raised, report>>
    /\ UNCHANGED downloaderVars
    /\ UNCHANGED net

\* if entity_id in org_cache: return org_cache[entity_id]
ResolveOrgCached ==
    /\ pc = "resolve"
    /\ EntityId(d) # ""
    /\ Cached(EntityId(d), org_cache)
    /\ org' = org_cache[EntityId(d)]
    /\ pc' = "dedup"
    /\ UNCHANGED <<org_cache, org_lookups>>
    /\ UNCHANGED <<fetchVars, dedupVars, classifyVars, rowVars, catalog, raised, report>>
    /\ UNCHANGED downloaderVars
    /\ UNCHANGED net

\* the lookup answers with the JSON document j
ResolveOrgLookup(j) ==
    /\ pc = "resolve"
    /\ EntityId(d) # ""
    /\ ~Cached(EntityId(d), org_cache)
    /\ org_lookups' = Append(org_lookups, EntityId(d))
    /\ org_cache' = [id \in DOMAIN org_cache \cup {EntityId(d)} |->
                        IF id = EntityId(d) THEN OrgOf(j) ELSE org_cache[id]]
    /\ org' = org_cache'[EntityId(d)]
    /\ pc' = "dedup"
    /\ UNCHANGED <<fetchVars, dedupVars, classifyVars, rowVars, catalog, raised, report>>
    /\ UNCHANGED downloaderVars
    /\ net' = Sleep(Call(net, "lookup"))

\* the failed lookup answered by the empty organisation (mutant of ResolveOrgFail)
ResolveOrgFailDefaulted(e) ==
    /\ pc = "resolve"
    /\ EntityId(d) # ""
    /\ ~Cached(EntityId(d), org_cache)
    /\ org' = NoOrg
    /\ pc' = "dedup"
    /\ UNCHANGED <<org_cache, org_lookups>>
    /\ UNCHANGED <<fetchVars, dedupVars, classifyVars, rowVars, catalog, raised, report>>
    /\ UNCHANGED downloaderVars
    /\ net' = Call(net, "lookup")

\* the lookup raises (transport, raise_for_status, r.json()): nothing catches it
ResolveOrgFail(e) ==
    /\ pc = "resolve"
    /\ EntityId(d) # ""
    /\ ~Cached(EntityId(d), org_cache)
    /\ raised' = e
    /\ pc' = "aborted"
    /\ UNCHANGED <<orgVars, fetchVars, dedupVars, classifyVars, rowVars, catalog, report>>
    /\ UNCHANGED downloaderVars
    /\ net' = Call(net, "lookup")

(***************************************************************************)
(* The loop body of the script: dedup, classification, the record.         *)
(***************************************************************************)
\* key = (org["lpa_curie"], d.get("local-plan",""), d.get("document-url",""))
Key(o, e) == <<o.lpa_curie, e.plan, e.url>>

\* a dedup test that finds nothing (mutant of IsDuplicate)
IsDuplicateNever(key, seenKeys) == FALSE

\* a dedup test on the declared URL alone (mutant of IsDuplicate)
IsDuplicateByURL(key, seenKeys) == \E k \in seenKeys : k[3] = key[3]

\* key in seen
IsDuplicate(key, seenKeys) == key \in seenKeys

\* if key in seen: continue
DropDuplicate ==
    /\ pc = "dedup"
    /\ IsDuplicate(Key(org, d), seen)
    /\ entry_keys' = Append(entry_keys, Key(org, d))
    /\ pc' = "yield"
    /\ UNCHANGED <<seen, fetchVars, orgVars, classifyVars, rowVars, catalog, raised, report>>
    /\ UNCHANGED downloaderVars
    /\ UNCHANGED net

\* seen.add(key); the URLs are stripped; classify_url(file_url) is entered
NewKey ==
    /\ pc = "dedup"
    /\ ~IsDuplicate(Key(org, d), seen)
    /\ entry_keys' = Append(entry_keys, Key(org, d))
    /\ seen' = seen \cup {Key(org, d)}
    /\ file_url' = Strip(d.url)
    /\ landing_url' = Strip(d.landing)
    /\ classify_calls' = classify_calls + 1
    /\ probes' = <<>>
    /\ head_resp' = Raised
    /\ get_resp' = Raised
    /\ result' = NoResult
    /\ pc' = "classify"
    /\ UNCHANGED <<probe_count, fetchVars, orgVars, rowVars, catalog, raised, report>>
    /\ UNCHANGED downloaderVars
    /\ UNCHANGED net

(***************************************************************************)
(* classify_url(file_url), one action per return and per request.          *)
(***************************************************************************)
HeadRequest(u) == [method |-> "HEAD", url |-> u, range |-> ""]
GetRequest(u) == [method |-> "GET", url |-> u, range |-> "bytes=0-0"]

\* if not u: return ("", "", 0, "unknown")
ClassifyEmpty ==
    /\ pc = "classify"
    /\ file_url = ""
    /\ result' = EmptyResult
    /\ pc' = "classified"
    /\ UNCHANGED <<file_url, landing_url, probes, head_resp, get_resp, classify_calls, probe_count>>
    /\ UNCHANGED <<fetchVars, orgVars, dedupVars, rowVars, catalog, raised, report>>
    /\ UNCHANGED downloaderVars
    /\ UNCHANGED net

\* the host is a viewer: return (u, "", 0, "landing")
ClassifyViewer ==
    /\ pc = "classify"
    /\ file_url # ""
    /\ IsViewer(Host(file_url))
    /\ result' = LandingResult(file_url)
    /\ pc' = "classified"
    /\ UNCHANGED <<file_url, landing_url, probes, head_resp, get_resp, classify_calls, probe_count>>
    /\ UNCHANGED <<fetchVars, orgVars, dedupVars, rowVars, catalog, raised, report>>
    /\ UNCHANGED downloaderVars
    /\ UNCHANGED net

\* requests.head(u) answers r: the except clause returns the degraded result,
\* a poor answer leads to the ranged GET, a good one to the return
ProbeHead(r) ==
    /\ pc = "classify"
    /\ file_url # ""
    /\ ~IsViewer(Host(file_url))
    /\ probes' = Append(probes, HeadRequest(file_url))
    /\ probe_count' = probe_count + 1
    /\ head_resp' = r
    /\ IF r.err
       THEN result' = DegradedResult(file_url) /\ pc' = "classified"
       ELSE IF NeedsFallback(r.status, ContentType(r.header))
            THEN result' = result /\ pc' = "fallback"
            ELSE result' = ProbedResult(file_url, r) /\ pc' = "classified"
    /\ UNCHANGED <<file_url, landing_url, get_resp, classify_calls>>
    /\ UNCHANGED <<fetchVars, orgVars, dedupVars, rowVars, catalog, raised, report>>
    /\ UNCHANGED downloaderVars
    /\ net' = Call(net, "probe")

\* requests.get(u, Range: bytes=0-0) answers r
ProbeGet(r) ==
    /\ pc = "fallback"
    /\ probes' = Append(probes, GetRequest(file_url))
    /\ probe_count' = probe_count + 1
    /\ get_resp' = r
    /\ result' = IF r.err THEN DegradedResult(file_url) ELSE ProbedResult(file_url, r)
    /\ pc' = "classified"
    /\ UNCHANGED <<file_url, landing_url, head_resp, classify_calls>>
    /\ UNCHANGED <<fetchVars, orgVars, dedupVars, rowVars, catalog, raised, report>>
    /\ UNCHANGED downloaderVars
    /\ net' = Call(net, "probe")

(***************************************************************************)
(* Back in the loop body: landing demotion and rows.append.                *)
(***************************************************************************)
\* the demotion without the landing-URL test (mutant of Demoted)
DemotedAnyLanding(kind, landing) == kind \in {"landing", "html", "unknown"}

\* the demotion without the "landing" kind (mutant of Demoted)
DemotedNotViewer(kind, landing) == kind \in {"html", "unknown"} /\ landing # ""

\* file_kind in ("landing","html","unknown") and landing_url
Demoted(kind, landing) == kind \in {"landing", "html", "unknown"} /\ landing # ""

\* the dict appended to rows: the fields that depend on the organisation, the
\* classification and the demotion (doc_name, doc_types and entry_date are
\* copied from the entry)
Row(o, e, res, landing) ==
    [lpa_curie |-> o.lpa_curie,
     lpa_name |-> o.lpa_name,
     doc_reference |-> e.reference,
     file_kind |-> res.kind,
     final_url |-> IF Demoted(res.kind, landing) THEN "" ELSE res.final,
     landing_url |-> landing,
     status |-> res.status,
     content_type |-> res.ctype,
     local_plan |-> e.plan]

\* classify_url has returned (its locals are gone); the record is appended
AppendRow ==
    /\ pc = "classified"
    /\ rows' = Append(rows, Row(org, d, result, landing_url))
    /\ row_results' = Append(row_results, result)
    /\ probes' = <<>>
    /\ head_resp' = Raised
    /\ get_resp' = Raised
    /\ pc' = "yield"
    /\ UNCHANGED <<file_url, landing_url, result, classify_calls, probe_count>>
    /\ UNCHANGED <<fetchVars, orgVars, dedupVars, catalog, raised, report>>
    /\ UNCHANGED downloaderVars
    /\ UNCHANGED net

\* a write that does not test rows: a header-only file (mutant of WriteCatalog)
WriteCatalogAlways ==
    /\ pc = "write"
    /\ catalog' = FileOf(rows)
    /\ report' = "wrote rows"
    /\ pc' = "done"
    /\ UNCHANGED <<fetchVars, orgVars, dedupVars, classifyVars, rowVars, raised>>
    /\ UNCHANGED downloaderVars
    /\ UNCHANGED net

\* after the loop: if rows: write the file and print "wrote N rows", else
\* print "No rows to write"
WriteCatalog ==
    /\ pc = "write"
    /\ catalog' = IF rows # <<>> THEN FileOf(rows) ELSE catalog
    /\ report' = IF rows # <<>> THEN "wrote rows" ELSE "No rows to write"
    /\ pc' = "done"
    /\ UNCHANGED <<fetchVars, orgVars, dedupVars, classifyVars, rowVars, raised>>
    /\ UNCHANGED downloaderVars
    /\ UNCHANGED net

Next ==
    \/ pc = "fetch" /\ \E items \in Pages(registry_size, registry, offset, limit) : FetchPage(items)
    \/ pc = "fetch" /\ \E e \in LookupErrors : FetchPageFail(e)
    \/ YieldItem
    \/ AdvancePage
    \/ ResolveOrgEmpty
    \/ ResolveOrgCached
    \/ pc = "resolve" /\ \E j \in OrgJson : ResolveOrgLookup(j)
    \/ pc = "resolve" /\ \E e \in LookupErrors : ResolveOrgFail(e)
    \/ DropDuplicate
    \/ NewKey
    \/ ClassifyEmpty
    \/ ClassifyViewer
    \/ pc = "classify" /\ \E r \in CrawlResponses(file_url) : ProbeHead(r)
    \/ pc = "fallback" /\ \E r \in CrawlResponses(file_url) : ProbeGet(r)
    \/ AppendRow
    \/ WriteCatalog

Spec == Init /\ [][Next]_vars

\* the script is one sequential process: it takes its next step whenever it has one
FairSpec == Spec /\ WF_vars(Next)

(***************************************************************************)
(* classify_url on its own: one call, on any URL, against any answers.     *)
(***************************************************************************)
InitClassify ==
    /\ registry_size = 0
    /\ registry = <<>>
    /\ limit = 1
    /\ offset = 0
    /\ page = <<>>
    /\ page_requests = <<>>
    /\ pc = "classify"
    /\ doc_count = 0
    /\ d = NoEntry
    /\ org = NoOrg
    /\ org_cache = <<>>
    /\ org_lookups = <<>>
    /\ seen = {}
    /\ entry_keys = <<>>
    /\ rows = <<>>
    /\ row_results = <<>>
    /\ file_url \in {Strip(u) : u \in ClassifyURLs}
    /\ landing_url = ""
    /\ probes = <<>>
    /\ head_resp = Raised
    /\ get_resp = Raised
    /\ result = NoResult
    /\ classify_calls = 1
    /\ probe_count = 0
    /\ catalog = NoFile
    /\ raised = ""
    /\ report = ""
    /\ DownloaderIdle
    /\ net = NoNet

NextClassify ==
    \/ ClassifyEmpty
    \/ ClassifyViewer
    \/ pc = "classify" /\ \E r \in ClassifyResponses(file_url) : ProbeHead(r)
    \/ pc = "fallback" /\ \E r \in ClassifyResponses(file_url) : ProbeGet(r)

SpecClassify == InitClassify /\ [][NextClassify]_vars

(***************************************************************************)
(* Properties of the crawl.                                                *)
(***************************************************************************)
\* the entries that have reached the dedup test, by position in the registry
Keyed == 1..Len(entry_keys)
\* entry j is the first one with its dedup key
FirstOfKey(j) == \A k \in 1..(j - 1) : entry_keys[k] # entry_keys[j]
\* classify_url is running for the current entry: its key is in seen, its
\* record is not yet in rows
Classifying == pc \in {"classify", "fallback", "classified"}
\* the entries a record is due for
Recorded == {j \in Keyed : FirstOfKey(j) /\ ~(Classifying /\ j = Len(entry_keys))}
\* record r is the one built from entry j of the registry
BuiltFrom(r, j) ==
    /\ r.doc_reference = registry[j].reference
    /\ <<r.lpa_curie, r.local_plan>> = <<entry_keys[j][1], entry_keys[j][2]>>
    /\ entry_keys[j][3] = registry[j].url
    /\ r.landing_url = Strip(registry[j].landing)

\* C1: the catalog holds exactly one record per distinct dedup key (organisation
\* short code, local plan, declared URL), built from the first entry with that key
\* in crawl order; later entries with the key add no record, and no step changes
\* a record that exists; the file written at the end holds these records.
C1_OneRecordPerKey ==
    /\ [](/\ Len(rows) = Cardinality(Recorded)
          /\ \A j \in Recorded : \E i \in 1..Len(rows) : BuiltFrom(rows[i], j)
          /\ \A i, k \in 1..Len(rows) :
                i < k => \E j, m \in Recorded : j < m /\ BuiltFrom(rows[i], j) /\ BuiltFrom(rows[k], m)
          /\ (pc = "done" /\ rows # <<>> => catalog.exists /\ catalog.rows = rows))
    /\ [][\A i \in 1..Len(rows) : i <= Len(rows') /\ rows'[i] = rows[i]]_vars

\* C1 witness: two entries with one key were crawled, the catalog holds the
\* record of the first only
C1_Witness ==
    /\ pc = "done"
    /\ Len(entry_keys) = 2
    /\ entry_keys[1] = entry_keys[2]
    /\ catalog.exists
    /\ Len(catalog.rows) = 1
    /\ catalog.rows[1].doc_reference = "r1"

\* C2: classify_url is invoked once per distinct dedup key processed and never
\* for an entry whose key was already seen; a duplicate entry causes no probe.
C2_NoClassifyForDuplicate ==
    /\ [](/\ classify_calls = Cardinality({entry_keys[j] : j \in Keyed})
          /\ classify_calls = Cardinality(seen)
          /\ probe_count <= 2 * classify_calls)
    /\ [][pc = "dedup" /\ (\E j \in Keyed : entry_keys[j] = Key(org, d))
            => classify_calls' = classify_calls /\ probe_count' = probe_count]_vars

\* C2 witness: the second entry repeated the key of the first, whose URL was
\* probed; there was one classify_url call
C2_Witness ==
    /\ Len(entry_keys) = 2
    /\ entry_keys[1] = entry_keys[2]
    /\ pc = "yield"
    /\ classify_calls = 1
    /\ probe_count >= 1

(***************************************************************************)
(* Properties of classify_url.                                             *)
(***************************************************************************)
ViewerHostSet == {viewer_hosts[i] : i \in 1..Len(viewer_hosts)}
\* u is neither empty nor short-circuited: classify_url probes it
Probed(u) == u # "" /\ ~IsViewer(Host(u))
\* the response classify_url read its return values from
UsedResp == IF Len(probes) = 2 THEN get_resp ELSE head_resp

\* C3: a URL whose host is in the viewer-host set classifies as landing, with the
\* original URL, an empty content type and status 0, and no request is issued for
\* it, neither the header-only probe nor the ranged fetch.
C3_ViewerShortCircuit ==
    Hostname(file_url) \in ViewerHostSet
        => /\ probes = <<>> /\ probe_count = 0 /\ pc # "fallback"
           /\ pc = "classified"
                => result = [final |-> file_url, ctype |-> "", status |-> 0, kind |-> "landing"]

\* C3 witness: a Google Drive URL, written in upper case, has been classified
C3_Witness ==
    /\ pc = "classified"
    /\ file_url = "HTTPS://Drive.Google.COM/f"
    /\ Hostname(file_url) = "drive.google.com"
    /\ result.kind = "landing"

\* C4: for a non-empty, non-viewer URL the header-only request is issued first;
\* the ranged one-byte GET is issued if and only if the header-only response has
\* status >= 400 or declares no content type; the returned status, content type
\* and final URL are those of the ranged GET when it was issued (and answered),
\* otherwise those of the header-only response; at most two requests per call.
C4_TwoStepProbe ==
    /\ Len(probes) <= 2
    /\ Len(probes) >= 1 => probes[1].method = "HEAD" /\ probes[1].url = file_url
    /\ Len(probes) = 2
        => probes[2].method = "GET" /\ probes[2].url = file_url /\ probes[2].range = "bytes=0-0"
    /\ Probed(file_url) /\ pc \in {"fallback", "classified"} => Len(probes) >= 1
    /\ pc = "fallback" => Len(probes) = 1
    /\ Probed(file_url) /\ pc \in {"fallback", "classified"}
        => ((Len(probes) = 2 \/ pc = "fallback")
              <=> /\ ~head_resp.err
                  /\ head_resp.status >= 400 \/ DeclaredType(head_resp.header) = "")
    /\ Probed(file_url) /\ pc = "classified" /\ ~UsedResp.err
        => /\ result.status = UsedResp.status
           /\ result.ctype = DeclaredType(UsedResp.header)
           /\ result.final = UsedResp.url

\* C4 witness: the header-only probe answered 200 without a content type, the
\* ranged GET answered 404 after a redirect, and that is what was returned
C4_Witness ==
    /\ pc = "classified"
    /\ Len(probes) = 2
    /\ head_resp = Response(200, " ;q=1", file_url)
    /\ get_resp = Response(404, "text/html; charset=UTF-8", RedirectURL)
    /\ result.status = 404
    /\ result.final = RedirectURL
    /\ result.ctype = "text/html"

\* the reference mapping of content type and URL path to a file kind
RefKind(ctype, path) ==
    LET pdf == Contains(ctype, "pdf") \/ EndsWith(Lower(path), ".pdf")
        image == StartsWith(ctype, "image/")
        html == Contains(ctype, "html")
        app == StartsWith(ctype, "application/")
    IN  CASE pdf -> "pdf"
          [] ~pdf /\ image -> "image"
          [] ~pdf /\ ~image /\ html -> "html"
          [] ~pdf /\ ~image /\ ~html /\ app -> "doc"
          [] OTHER -> "unknown"

\* C6: for every probed URL the file kind returned equals the reference mapping
\* of the resolved content type and the URL path: pdf, else image, else html,
\* else doc, else unknown, in this order of precedence.
C6_FileKindMapping ==
    Probed(file_url) /\ pc = "classified" /\ ~UsedResp.err
        => result.kind = RefKind(result.ctype, UrlPath(file_url))

\* C6 witness: an XHTML answer is html although its type is an application type
C6_Witness ==
    /\ pc = "classified"
    /\ Probed(file_url)
    /\ result.ctype = "application/xhtml+xml"
    /\ result.kind = "html"

(***************************************************************************)
(* Properties of the crawl that rest on classify_url.                      *)
(***************************************************************************)
\* C5: when the probing raises a transport error (the header-only probe, or
\* the ranged fetch after it), classify_url returns (original URL, "", 0,
\* unknown); the error does not end the crawl: the record is appended and the
\* crawl goes on to the next entry.
C5_DegradedOnTransportError ==
    /\ [](/\ pc = "classified" /\ probes # <<>> /\ UsedResp.err
              => result = [final |-> file_url, ctype |-> "", status |-> 0, kind |-> "unknown"]
          /\ pc = "aborted" => probes = <<>>)
    /\ [][(pc = "classify" \/ pc = "fallback") => (pc' = "fallback" \/ pc' = "classified")]_vars
    /\ [][pc = "classified" => pc' = "yield" /\ rows' = Append(rows, Row(org, d, result, landing_url))]_vars

\* C5 witness: the probe of the first entry raised, its record holds the
\* degraded result, and the second entry is being processed
C5_Witness ==
    /\ Len(rows) >= 1
    /\ rows[1].doc_reference = "r1"
    /\ row_results[1] = [final |-> Strip(FileURL), ctype |-> "", status |-> 0, kind |-> "unknown"]
    /\ doc_count = 2
    /\ pc = "dedup"

\* C7: a record whose kind is landing, html or unknown and whose landing URL is
\* not empty has an empty final_url; every other record has the final URL that
\* classify_url returned.
C7_LandingDemotion ==
    \A i \in 1..Len(rows) :
        /\ rows[i].file_kind = row_results[i].kind
        /\ rows[i].final_url =
              IF rows[i].file_kind \in {"landing", "html", "unknown"} /\ rows[i].landing_url # ""
              THEN "" ELSE row_results[i].final

\* C7 witness: an html record with a landing URL lost its final URL, a pdf
\* record with a landing URL kept it
C7_Witness ==
    /\ Len(rows) = 2
    /\ rows[1].file_kind = "html" /\ rows[1].landing_url # ""
    /\ row_results[1].final = RedirectURL /\ rows[1].final_url = ""
    /\ rows[2].file_kind = "pdf" /\ rows[2].landing_url # ""
    /\ rows[2].final_url = Strip(FileURL)

\* the entry of the registry that record i was built from
EntryOfRow(i) == CHOOSE e \in {registry[j] : j \in 1..Len(registry)} : e.reference = rows[i].doc_reference
\* the declared document URL of record i has a viewer host
DeclaredViewer(i) == Host(Strip(EntryOfRow(i).url)) \in ViewerHostSet

\* C8 as stated: every record whose declared URL has a viewer host has
\* file_kind = landing and an empty final_url.
C8_ViewerFinalEmpty ==
    \A i \in 1..Len(rows) :
        DeclaredViewer(i) => rows[i].file_kind = "landing" /\ rows[i].final_url = ""

\* C8 amended: every record whose declared URL has a viewer host has
\* file_kind = landing; its final_url is empty when the entry declares a landing
\* URL, and is the declared URL itself when it declares none.
C8_ViewerFinalEmptyIfLanding ==
    \A i \in 1..Len(rows) :
        DeclaredViewer(i)
            => /\ rows[i].file_kind = "landing"
               /\ rows[i].landing_url # "" => rows[i].final_url = ""
               /\ rows[i].landing_url = "" => rows[i].final_url = Strip(EntryOfRow(i).url)

\* C8 witness: two viewer records, one with a landing URL and one without
C8_Witness ==
    /\ Len(rows) = 2
    /\ DeclaredViewer(1) /\ rows[1].landing_url # "" /\ rows[1].final_url = ""
    /\ DeclaredViewer(2) /\ rows[2].landing_url = "" /\ rows[2].final_url = ViewerURL

(***************************************************************************)
(* Properties of fetch_docs and resolve_org.                               *)
(***************************************************************************)
Finished == pc \in {"done", "aborted"}

\* C9: pages are requested at offsets 0, L, 2L, ...; every item of every
\* non-empty page is yielded, in order; the first empty page ends the crawl and
\* no page is requested after it; the crawl of a finite registry terminates.
C9_Pagination ==
    /\ [](/\ \A k \in 1..Len(page_requests) : page_requests[k] = (k - 1) * limit
          /\ \A k \in 1..(Len(page_requests) - 1) : page_requests[k] < registry_size
          /\ doc_count + Len(page) = Len(registry)
          /\ pc \in {"resolve", "dedup", "classify", "fallback", "classified"}
                => d = registry[doc_count]
          /\ pc \in {"write", "done"}
                => /\ doc_count = registry_size
                   /\ page_requests[Len(page_requests)] >= registry_size)
    /\ <>Finished

\* C9 witness: two pages of one entry each, then the empty page, and the end
C9_Witness ==
    /\ pc = "done"
    /\ limit = 1
    /\ page_requests = <<0, 1, 2>>
    /\ doc_count = 2

\* number of successful lookups of entity id
Lookups(id) == Cardinality({k \in 1..Len(org_lookups) : org_lookups[k] = id})

\* C10: at most one successful lookup per non-empty organisation identifier and
\* none for the empty one; the cache only grows and an entry, once stored, is
\* never changed or removed, so every resolve of an identifier returns the same
\* organisation.
C10_OrgCache ==
    /\ [](/\ \A k \in 1..Len(org_lookups) : org_lookups[k] # "" /\ Lookups(org_lookups[k]) = 1
          /\ DOMAIN org_cache = {org_lookups[k] : k \in 1..Len(org_lookups)}
          /\ pc = "dedup"
                => org = IF EntityId(d) = "" THEN [lpa_curie |-> "", lpa_name |-> ""]
                         ELSE org_cache[EntityId(d)])
    /\ [][\A id \in DOMAIN org_cache : id \in DOMAIN org_cache' /\ org_cache'[id] = org_cache[id]]_vars

\* C10 witness: two entries of one organisation, one lookup, the second
\* resolved from the cache
C10_Witness ==
    /\ pc = "dedup"
    /\ doc_count = 2
    /\ registry[1].org = "7" /\ registry[2].org = "7"
    /\ org_lookups = <<"7">>
    /\ org = org_cache["7"]

(***************************************************************************)
(* Properties of the failure policy and of the catalog write.              *)
(***************************************************************************)
\* C11: an error (network, status >= 400, decoding) on an organisation lookup or
\* on a page fetch is not replaced by a default: the organisation the loop uses
\* for a non-empty identifier always comes from a successful lookup, the loop
\* ends normally only on a page that was served empty, and the error aborts the
\* run: that step changes neither the cache nor the records, and no step
\* follows it.
C11_LookupErrorsAbort ==
    /\ [](/\ raised # "" <=> pc = "aborted"
          /\ pc \in {"dedup", "classify", "fallback", "classified"} /\ EntityId(d) # ""
                => EntityId(d) \in DOMAIN org_cache /\ org = org_cache[EntityId(d)]
          /\ pc \in {"write", "done"} => doc_count = registry_size)
    /\ [][pc' = "aborted"
            => /\ pc = "fetch" \/ pc = "resolve"
               /\ raised' \in LookupErrors
               /\ UNCHANGED <<org_cache, org_lookups, org, seen, rows, doc_count, catalog>>]_vars
    /\ [][pc # "aborted"]_vars

\* C11 witness: the lookup of the second organisation answered an error status
\* after the first entry had been recorded; the cache holds the first only
C11_Witness ==
    /\ pc = "aborted"
    /\ raised = "HTTPError"
    /\ doc_count = 2
    /\ Len(rows) = 1
    /\ EntityId(d) = "8"
    /\ DOMAIN org_cache = {"7"}

\* C12 as stated: when the crawl aborts on a failed lookup or page fetch, the
\* records collected before are written to the catalog file.
C12_PartialCatalogPreserved ==
    pc = "aborted" /\ rows # <<>> => catalog.exists /\ catalog.rows = rows

\* C13: the catalog file is written at most once, in the step after the loop
\* has consumed the whole registry, and then holds all the records in crawl
\* order; a crawl without records writes no file and reports "No rows to write".
C13_CatalogWrittenOnce ==
    /\ [](/\ catalog.exists
                => /\ pc = "done" /\ doc_count = registry_size
                   /\ rows # <<>> /\ catalog.rows = rows /\ report = "wrote rows"
          /\ pc = "done" /\ rows = <<>> => ~catalog.exists /\ report = "No rows to write"
          /\ report # "" => pc = "done")
    /\ [][catalog' # catalog \/ report' # report => pc = "write" /\ pc' = "done"]_vars
    /\ [][pc # "done"]_vars

\* C13 witness: a crawl of two entries wrote its two records
C13_Witness ==
    /\ pc = "done"
    /\ doc_count = 2
    /\ catalog = FileOf(rows)
    /\ Len(rows) = 2
    /\ report = "wrote rows"

\* the empty case of C13 happens too: a crawl that ended without a record
C13_EmptyCrawl == pc = "done" /\ rows = <<>> /\ report = "No rows to write"

(***************************************************************************)
(* downloader.py: sanitize_filename.                                       *)
(***************************************************************************)
\* unsafe = '<>:"/\\|?*'
Unsafe == "<>:\"/\\|?*"

\* for char in unsafe: s = s.replace(char, '_')   (computed by halves)
RECURSIVE ReplaceUnsafe(_)
ReplaceUnsafe(s) ==
    IF Len(s) = 0 THEN ""
    ELSE IF Len(s) = 1 THEN (IF InChars(s, Unsafe) THEN "_" ELSE s)
    ELSE ReplaceUnsafe(Take(s, Len(s) \div 2)) \o ReplaceUnsafe(Drop(s, Len(s) \div 2))

\* if len(s) > max_len: s = s[:max_len]
Truncate(s, max_len) == IF Len(s) > max_len THEN Take(s, max_len) ELSE s

\* return s or "unnamed"
OrUnnamed(s) == IF s = "" THEN "unnamed" ELSE s

\* sanitize_filename(s, max_len): replace, strip dots and spaces, truncate
sanitize_filename(s, max_len) ==
    OrUnnamed(Truncate(StripChars(ReplaceUnsafe(s), ". "), max_len))

\* the characters the studied names are made of: a letter, the characters
\* that are stripped, two unsafe characters
NameChars == {"a", ".", " ", "/", "*"}

\* the strings of at most n characters of NameChars
Names(n) ==
    LET of[k \in 0..n] == IF k = 0 THEN {""} ELSE {t \o c : t \in of[k - 1], c \in NameChars}
    IN  UNION {of[k] : k \in 0..n}

\* a document title of 149 letters
LongName ==
    LET a == "aaaaaaaaaaaaaaaaaaaaaaaaaaaaaaaaaaaaa"
    IN  a \o a \o a \o a \o "a"

\* the names sanitize_filename is called with
SanitizeInputs == {p \o t : p \in {"", LongName}, t \in Names(MaxNameLen)}

\* the values of max_len: the two the downloader uses (the default, and the
\* cap of a name) and short ones
MaxLens == (1..MaxNameLen) \cup {150, 200}

\* scraper.py is not running
ScraperIdle ==
    /\ registry_size = 0 /\ registry = <<>> /\ limit = 1 /\ offset = 0
    /\ page = <<>> /\ page_requests = <<>> /\ pc = "idle" /\ doc_count = 0
    /\ d = NoEntry /\ org = NoOrg /\ org_cache = <<>> /\ org_lookups = <<>>
    /\ seen = {} /\ entry_keys = <<>> /\ rows = <<>> /\ row_results = <<>>
    /\ file_url = "" /\ landing_url = "" /\ probes = <<>>
    /\ head_resp = Raised /\ get_resp = Raised /\ result = NoResult
    /\ classify_calls = 0 /\ probe_count = 0
    /\ catalog = NoFile /\ raised = "" /\ report = ""

InitSanitize ==
    /\ ScraperIdle
    /\ sanitize_call \in {[s |-> x, max_len |-> n, returned |-> FALSE, ret |-> ""] :
                            x \in SanitizeInputs, n \in MaxLens}
    /\ DownloadIdle
    /\ net = NoNet

\* the call returns
SanitizeReturn ==
    /\ ~sanitize_call.returned
    /\ sanitize_call' = [sanitize_call EXCEPT !.returned = TRUE,
                                               !.ret = sanitize_filename(sanitize_call.s, sanitize_call.max_len)]
    /\ UNCHANGED <<scraperVars, downloadVars>>
    /\ UNCHANGED net

NextSanitize == SanitizeReturn

SpecSanitize == InitSanitize /\ [][NextSanitize]_vars

\* C19 as stated: what sanitize_filename returns holds none of the unsafe
\* characters, neither starts nor ends with a dot or a space, is at most
\* max_len long and is not empty.
C19_SanitizedNameSafe ==
    sanitize_call.returned
        => LET r == sanitize_call.ret
           IN  /\ \A i \in 1..Len(r) : ~InChars(Char(r, i), Unsafe)
               /\ r # ""
               /\ ~InChars(Char(r, 1), ". ") /\ ~InChars(Char(r, Len(r)), ". ")
               /\ Len(r) <= sanitize_call.max_len

\* the part of C19 the code keeps: no unsafe character, never empty, no
\* leading dot or space
C19_SanitizedNameCharsSafe ==
    sanitize_call.returned
        => LET r == sanitize_call.ret
           IN  /\ \A i \in 1..Len(r) : ~InChars(Char(r, i), Unsafe)
               /\ r # ""
               /\ ~InChars(Char(r, 1), ". ")

\* the failing case of C19: a title of 152 characters cut at max_len = 150,
\* right after a dot
C19_TrailingDot ==
    /\ sanitize_call.returned
    /\ sanitize_call.s = LongName \o ". a"
    /\ sanitize_call.max_len = 150
    /\ Len(sanitize_call.ret) = 150
    /\ Char(sanitize_call.ret, 150) = "."

(***************************************************************************)
(* downloader.py: get_filename_from_url.                                   *)
(***************************************************************************)
\* os.path.basename: what follows the last "/"
Basename(p) == Drop(p, RFindAny(p, "/") + 1)

\* the printable ASCII characters, from 0x20 to 0x7E (a TLA+ string cannot
\* hold the grave accent, 0x60: its place is filled, and Decode leaves %60)
Ascii ==
    " !\"#$%&'()*+,-./0123456789:;<=>?@ABCDEFGHIJKLMNOPQRSTUVWXYZ[\\]^__abcdefghijklmnopqrstuvwxyz{|}~"
HexDigits == "0123456789abcdef"
IsHex(c) == InChars(LowerChar(c), HexDigits)
HexValue(c) == FindAny(HexDigits, LowerChar(c))

\* the character a %XX escape stands for; the URLs of the model escape
\* printable ASCII only, any other escape is left as it is here
Decode(esc) ==
    LET v == 16 * HexValue(Char(esc, 2)) + HexValue(Char(esc, 3))
    IN  IF v >= 32 /\ v <= 126 /\ v # 96 THEN Char(Ascii, v - 31) ELSE esc

\* urllib.parse.unquote
RECURSIVE unquote(_)
unquote(s) ==
    IF Len(s) = 0 THEN ""
    ELSE IF Len(s) >= 3 /\ Char(s, 1) = "%" /\ IsHex(Char(s, 2)) /\ IsHex(Char(s, 3))
         THEN Decode(Take(s, 3)) \o unquote(Drop(s, 3))
         ELSE Char(s, 1) \o unquote(Drop(s, 1))

\* os.path.splitext: the extension starts at the last dot of the last
\* component, unless only dots precede it there
SplitAt(p) ==
    LET sep == RFindAny(p, "/")
        dot == RFindAny(p, ".")
    IN  IF dot > sep /\ \E k \in (sep + 2)..dot : Char(p, k) # "." THEN dot ELSE Len(p)
SplitName(p) == Take(p, SplitAt(p))
SplitExt(p) == Drop(p, SplitAt(p))

\* ext_map.get(file_kind, ".bin")
ExtOfKind(file_kind) ==
    CASE file_kind = "pdf" -> ".pdf"
      [] file_kind = "html" -> ".html"
      [] file_kind = "doc" -> ".doc"
      [] file_kind = "image" -> ".jpg"
      [] OTHER -> ".bin"

\* get_filename_from_url(url, doc_ref, doc_name, file_kind), u being the url
\* the name always synthesized from the metadata, the extension from the kind
\* (mutant of get_filename_from_url)
get_filename_by_kind(u, doc_ref, doc_name, file_kind) ==
    sanitize_filename(doc_ref \o "_" \o doc_name, 150) \o ExtOfKind(file_kind)

get_filename_from_url(u, doc_ref, doc_name, file_kind) ==
    LET url_filename == unquote(Basename(UrlPath(u)))
    IN  IF url_filename # "" /\ Contains(url_filename, ".")
        THEN doc_ref \o "_" \o sanitize_filename(SplitName(url_filename), 150) \o SplitExt(url_filename)
        ELSE sanitize_filename(doc_ref \o "_" \o doc_name, 150) \o ExtOfKind(file_kind)

\* plan_dir / filename, under DOWNLOAD_DIR
PlanDir(local_plan) ==
    "downloads/" \o (IF local_plan # "" THEN sanitize_filename(local_plan, 200) ELSE "uncategorized")
\* Path.__truediv__: an absolute right operand replaces the left one
JoinPath(dir, name) == IF StartsWith(name, "/") THEN name ELSE dir \o "/" \o name
FilePath(u, doc_ref, doc_name, file_kind, local_plan) ==
    JoinPath(PlanDir(local_plan), get_filename_from_url(u, doc_ref, doc_name, file_kind))

(***************************************************************************)
(* downloader.py: the catalog read, the transport and the file system.     *)
(***************************************************************************)
CatalogRow(ref, kind, final, landing) ==
    [lpa_curie |-> "la:A", lpa_name |-> "Alpha", doc_reference |-> ref, doc_name |-> "Plan",
     file_kind |-> kind, final_url |-> final, landing_url |-> landing, local_plan |-> "lp1"]

\* the rows a catalog may hold: a document, a row without any URL (its
\* final_url is blank), a landing-only row (saved under a synthesized name),
\* and a second document with the destination of the first
CatalogRows ==
    {CatalogRow("r1", "pdf", "http://a.io/x.pdf", LandingURL),
     CatalogRow("r2", "unknown", " ", ""),
     CatalogRow("r3", "landing", "", LandingURL),
     CatalogRow("r1", "pdf", "http://b.io/x.pdf", "")}

\* rows whose fields vary: the URL (a .pdf path, another extension, upper
\* case, no extension, an escaped character in the extension), the reference
\* (plain, or with a path separator), the name, the kind, the local plan
NameRow(ref, name, kind, final, plan) ==
    [CatalogRow(ref, kind, final, "") EXCEPT !.doc_name = name, !.local_plan = plan]
NameURLs ==
    {"http://a.io/x.pdf", "http://a.io/view.aspx", "http://a.io/x.PDF", "http://a.io/doc",
     "http://a.io/x.p%3Af"}
NameRows ==
    {NameRow(ref, name, kind, u, plan) :
        ref \in {"r1", "../r1"}, name \in {"Plan", "a/b"}, kind \in {"pdf", "html"},
        u \in NameURLs, plan \in {"lp1", ""}}
    \cup {NameRow("r1", "Plan", "pdf", "", "lp1")}

\* the catalogs of at most n rows
Catalogs(n) == UNION {[1..k -> CatalogRows] : k \in 0..n}

\* what requests.get, raise_for_status or iter_content may raise: subclasses
\* of requests.RequestException, with their message
RequestErrors ==
    {[type |-> "Timeout", text |-> ""],
     [type |-> "ChunkedEncodingError", text |-> "Connection broken"]}

\* error_msg = f"{type(e).__name__}: {str(e)[:100]}"
ErrorMsg(e) == e.type \o ": " \o Truncate(e.text, 100)

\* a file written to the end, and one whose write was cut short
Whole(u) == [body |-> u, whole |-> TRUE]
Partial(u) == [body |-> u, whole |-> FALSE]
\* the body written under a temporary name that is never renamed (mutant of WriteFile)
WriteFileAside(fs, path, content) ==
    [q \in DOMAIN fs \cup {path \o ".part"} |-> IF q = path \o ".part" THEN content ELSE fs[q]]

\* open(filepath, 'wb') and the writes
WriteFile(fs, path, content) == [q \in DOMAIN fs \cup {path} |-> IF q = path THEN content ELSE fs[q]]
\* filepath.unlink()
Unlink(fs, path) == [q \in DOMAIN fs \ {path} |-> fs[q]]

(***************************************************************************)
(* download_documents: the decisions about a row.                          *)
(***************************************************************************)
\* url = final_url, stripped, or else landing_url, stripped
RowUrl(row) == IF Strip(row.final_url) # "" THEN Strip(row.final_url) ELSE Strip(row.landing_url)

\* file_kinds and file_kind not in file_kinds
KindExcluded(kinds, kind) == kinds # <<>> /\ ~\E i \in 1..Len(kinds) : kinds[i] = kind

\* filepath = plan_dir / filename, for each row of the model
PathTable ==
    [row \in CatalogRows \cup NameRows |->
        FilePath(RowUrl(row), row.doc_reference, row.doc_name, row.file_kind, row.local_plan)]
PathOf(row) == PathTable[row]

\* max_downloads and stats["downloaded"] >= max_downloads: None and 0 are false
LimitReached(max, downloaded) == max.given /\ max.n # 0 /\ downloaded >= max.n

\* stats[k] += 1
Count(st, k) == [st EXCEPT ![k] = @ + 1]

\* the row the reader hands out next
ThisRow == catalog.rows[next_row + 1]
MoreRows == dl_pc = "row" /\ next_row < Len(catalog.rows)

\* the entry of failed_downloads
Failure(row, u, msg) ==
    [doc_reference |-> row.doc_reference, doc_name |-> row.doc_name, url |-> u, error |-> msg,
     lpa_curie |-> row.lpa_curie, lpa_name |-> row.lpa_name, local_plan |-> row.local_plan]

(***************************************************************************)
(* download_documents: one action per outcome of a row.                    *)
(***************************************************************************)
\* the call: without the csv file it prints an error and returns
StartRun ==
    /\ dl_pc = "idle"
    /\ dl_pc' = IF catalog.exists THEN "row" ELSE "done"
    /\ UNCHANGED <<options, run, runVars, files, failures_log, prev_stats>>
    /\ UNCHANGED <<scraperVars, sanitize_call>>
    /\ UNCHANGED net

\* the row without URL handed to download_file, which answers (False, "No URL
\* provided"): a failure (mutant of SkipNoUrl)
SkipNoUrlAsFailure ==
    /\ MoreRows
    /\ RowUrl(ThisRow) = ""
    /\ next_row' = next_row + 1
    /\ stats' = Count(Count(stats, "total"), "failed")
    /\ failed_downloads' = Append(failed_downloads, Failure(ThisRow, "", "No URL provided"))
    /\ outcomes' = Append(outcomes, "failed")
    /\ UNCHANGED <<url, filepath, fetches, dl_raised>>
    /\ UNCHANGED <<options, run, dl_pc, files, failures_log, prev_stats>>
    /\ UNCHANGED <<scraperVars, sanitize_call>>
    /\ UNCHANGED net

\* if not url: stats["skipped_no_url"] += 1; continue
SkipNoUrl ==
    /\ MoreRows
    /\ RowUrl(ThisRow) = ""
    /\ next_row' = next_row + 1
    /\ stats' = Count(Count(stats, "total"), "skipped_no_url")
    /\ outcomes' = Append(outcomes, "skipped_no_url")
    /\ UNCHANGED <<failed_downloads, url, filepath, fetches, dl_raised>>
    /\ UNCHANGED <<options, run, dl_pc, files, failures_log, prev_stats>>
    /\ UNCHANGED <<scraperVars, sanitize_call>>
    /\ UNCHANGED net

\* if file_kinds and file_kind not in file_kinds: stats["skipped_kind"] += 1; continue
SkipKind ==
    /\ MoreRows
    /\ RowUrl(ThisRow) # ""
    /\ KindExcluded(options.file_kinds, ThisRow.file_kind)
    /\ next_row' = next_row + 1
    /\ stats' = Count(Count(stats, "total"), "skipped_kind")
    /\ outcomes' = Append(outcomes, "skipped_kind")
    /\ UNCHANGED <<failed_downloads, url, filepath, fetches, dl_raised>>
    /\ UNCHANGED <<options, run, dl_pc, files, failures_log, prev_stats>>
    /\ UNCHANGED <<scraperVars, sanitize_call>>
    /\ UNCHANGED net

\* if skip_existing and filepath.exists(): stats["skipped_exists"] += 1; continue
SkipExists ==
    /\ MoreRows
    /\ RowUrl(ThisRow) # ""
    /\ ~KindExcluded(options.file_kinds, ThisRow.file_kind)
    /\ options.skip_existing /\ PathOf(ThisRow) \in DOMAIN files
    /\ next_row' = next_row + 1
    /\ stats' = Count(Count(stats, "total"), "skipped_exists")
    /\ outcomes' = Append(outcomes, "skipped_exists")
    /\ UNCHANGED <<failed_downloads, url, filepath, fetches, dl_raised>>
    /\ UNCHANGED <<options, run, dl_pc, files, failures_log, prev_stats>>
    /\ UNCHANGED <<scraperVars, sanitize_call>>
    /\ UNCHANGED net

\* none of the three: download_file(url, filepath) is entered and sends the request
BeginDownload ==
    /\ MoreRows
    /\ RowUrl(ThisRow) # ""
    /\ ~KindExcluded(options.file_kinds, ThisRow.file_kind)
    /\ ~(options.skip_existing /\ PathOf(ThisRow) \in DOMAIN files)
    /\ next_row' = next_row + 1
    /\ stats' = Count(stats, "total")
    /\ url' = RowUrl(ThisRow)
    /\ filepath' = PathOf(ThisRow)
    /\ fetches' = Append(fetches, RowUrl(ThisRow))
    /\ dl_pc' = "download"
    /\ UNCHANGED <<failed_downloads, outcomes, dl_raised>>
    /\ UNCHANGED <<options, run, files, failures_log, prev_stats>>
    /\ UNCHANGED <<scraperVars, sanitize_call>>
    /\ net' = Call(net, "file")

\* after the outcome: the limit test, then the sleep and the next row
AfterDownload(st) == IF LimitReached(options.max_downloads, st.downloaded) THEN "break" ELSE "row"

\* the body is written to the end: download_file returns (True, "")
DownloadOk ==
    /\ dl_pc = "download"
    /\ files' = WriteFile(files, filepath, Whole(url))
    /\ stats' = Count(stats, "downloaded")
    /\ outcomes' = Append(outcomes, "downloaded")
    /\ dl_pc' = AfterDownload(stats')
    /\ UNCHANGED <<next_row, failed_downloads, url, filepath, fetches, dl_raised>>
    /\ UNCHANGED <<options, run, failures_log, prev_stats>>
    /\ UNCHANGED <<scraperVars, sanitize_call>>
    /\ net' = IF AfterDownload(stats') = "row" THEN Sleep(net) ELSE net

\* requests.get, raise_for_status or the streaming of the body raises a
\* RequestException: what was written is removed, with any file that was at
\* filepath before; download_file returns (False, error_msg)
DownloadFails(e) ==
    /\ dl_pc = "download"
    /\ files' = Unlink(files, filepath)
    /\ stats' = Count(stats, "failed")
    /\ failed_downloads' = Append(failed_downloads, Failure(catalog.rows[next_row], url, ErrorMsg(e)))
    /\ outcomes' = Append(outcomes, "failed")
    /\ dl_pc' = AfterDownload(stats')
    /\ UNCHANGED <<next_row, url, filepath, fetches, dl_raised>>
    /\ UNCHANGED <<options, run, failures_log, prev_stats>>
    /\ UNCHANGED <<scraperVars, sanitize_call>>
    /\ net' = IF AfterDownload(stats') = "row" THEN Sleep(net) ELSE net

\* open(filepath, 'wb') raises an OSError: the except clause does not catch it
DownloadOpenFails ==
    /\ dl_pc = "download"
    /\ dl_raised' = "OSError"
    /\ dl_pc' = "crashed"
    /\ UNCHANGED <<next_row, stats, failed_downloads, url, filepath, fetches, outcomes>>
    /\ UNCHANGED <<options, run, files, failures_log, prev_stats>>
    /\ UNCHANGED <<scraperVars, sanitize_call>>
    /\ UNCHANGED net

\* f.write(chunk) raises an OSError (the disk is full): the except clause does
\* not catch it, the file stays as far as it was written
DownloadWriteFails ==
    /\ dl_pc = "download"
    /\ files' = WriteFile(files, filepath, Partial(url))
    /\ dl_raised' = "OSError"
    /\ dl_pc' = "crashed"
    /\ UNCHANGED <<next_row, stats, failed_downloads, url, filepath, fetches, outcomes>>
    /\ UNCHANGED <<options, run, failures_log, prev_stats>>
    /\ UNCHANGED <<scraperVars, sanitize_call>>
    /\ UNCHANGED net

\* after the loop (the rows are used up, or the break): the summary, the
\* failure log if there is a failure to log, the return
Summary ==
    /\ dl_pc = "break" \/ (dl_pc = "row" /\ next_row = Len(catalog.rows))
    /\ failures_log' = IF options.log_failures /\ failed_downloads # <<>>
                        THEN FileOf(failed_downloads) ELSE failures_log
    /\ dl_pc' = "done"
    /\ UNCHANGED <<options, run, runVars, files, prev_stats>>
    /\ UNCHANGED <<scraperVars, sanitize_call>>
    /\ UNCHANGED net

\* download_documents is called again, with the same arguments, on the same
\* catalog and the files as they are
RunAgain ==
    /\ dl_pc = "done" \/ dl_pc = "crashed"
    /\ run = "first"
    /\ catalog.exists
    /\ run' = "second"
    /\ prev_stats' = stats
    /\ next_row' = 0 /\ stats' = ZeroStats /\ failed_downloads' = <<>>
    /\ url' = "" /\ filepath' = "" /\ fetches' = <<>> /\ outcomes' = <<>> /\ dl_raised' = ""
    /\ dl_pc' = "idle"
    /\ UNCHANGED <<options, files, failures_log>>
    /\ UNCHANGED <<scraperVars, sanitize_call>>
    /\ net' = NoNet

\* the arguments download_documents may be called with
Options ==
    {[max_downloads |-> m, skip_existing |-> sk, file_kinds |-> fk, log_failures |-> lf] :
        m \in {NoMax, Max(0), Max(1)}, sk \in BOOLEAN,
        fk \in {<<>>, <<"pdf">>}, lf \in BOOLEAN}

InitDownload ==
    /\ registry_size = 0 /\ registry = <<>> /\ limit = 1 /\ offset = 0
    /\ page = <<>> /\ page_requests = <<>> /\ pc = "idle" /\ doc_count = 0
    /\ d = NoEntry /\ org = NoOrg /\ org_cache = <<>> /\ org_lookups = <<>>
    /\ seen = {} /\ entry_keys = <<>> /\ rows = <<>> /\ row_results = <<>>
    /\ file_url = "" /\ landing_url = "" /\ probes = <<>>
    /\ head_resp = Raised /\ get_resp = Raised /\ result = NoResult
    /\ classify_calls = 0 /\ probe_count = 0
    /\ raised = "" /\ report = ""
    /\ catalog \in {NoFile} \cup {FileOf(c) : c \in Catalogs(MaxRows)}
    /\ sanitize_call = NoCall
    /\ options \in Options
    /\ run = "first" /\ dl_pc = "idle"
    /\ next_row = 0 /\ stats = ZeroStats /\ failed_downloads = <<>>
    /\ url = "" /\ filepath = "" /\ files = <<>> /\ fetches = <<>> /\ outcomes = <<>>
    /\ failures_log = NoFile /\ prev_stats = ZeroStats /\ dl_raised = ""
    /\ net = NoNet

\* download_documents on a catalog of one row, the row's fields varying
InitFilename ==
    /\ registry_size = 0 /\ registry = <<>> /\ limit = 1 /\ offset = 0
    /\ page = <<>> /\ page_requests = <<>> /\ pc = "idle" /\ doc_count = 0
    /\ d = NoEntry /\ org = NoOrg /\ org_cache = <<>> /\ org_lookups = <<>>
    /\ seen = {} /\ entry_keys = <<>> /\ rows = <<>> /\ row_results = <<>>
    /\ file_url = "" /\ landing_url = "" /\ probes = <<>>
    /\ head_resp = Raised /\ get_resp = Raised /\ result = NoResult
    /\ classify_calls = 0 /\ probe_count = 0
    /\ raised = "" /\ report = ""
    /\ catalog \in {FileOf(<<r>>) : r \in NameRows}
    /\ sanitize_call = NoCall
    /\ options \in {DefaultOptions, [DefaultOptions EXCEPT !.file_kinds = <<"pdf">>]}
    /\ run = "first" /\ dl_pc = "idle"
    /\ next_row = 0 /\ stats = ZeroStats /\ failed_downloads = <<>>
    /\ url = "" /\ filepath = "" /\ files = <<>> /\ fetches = <<>> /\ outcomes = <<>>
    /\ failures_log = NoFile /\ prev_stats = ZeroStats /\ dl_raised = ""
    /\ net = NoNet

NextDownload ==
    \/ StartRun
    \/ SkipNoUrl
    \/ SkipKind
    \/ SkipExists
    \/ BeginDownload
    \/ DownloadOk
    \/ dl_pc = "download" /\ \E e \in RequestErrors : DownloadFails(e)
    \/ DownloadOpenFails
    \/ DownloadWriteFails
    \/ Summary
    \/ RunAgain

SpecDownload == InitDownload /\ [][NextDownload]_vars
SpecFilename == InitFilename /\ [][NextDownload]_vars

(***************************************************************************)
(* Properties of download_documents.                                       *)
(***************************************************************************)
\* the rows visited so far in this run are the first next_row rows of the
\* catalog; Visited are those whose outcome is known
Visited == 1..Len(outcomes)
Outcomes == {"skipped_no_url", "skipped_kind", "skipped_exists", "downloaded", "failed"}
CountOf(o) == Cardinality({i \in Visited : outcomes[i] = o})
\* the outcome the rules give row i, in their order, as far as the row and the
\* options decide it
RuledOut(i) ==
    IF RowUrl(catalog.rows[i]) = "" THEN {"skipped_no_url"}
    ELSE IF KindExcluded(options.file_kinds, catalog.rows[i].file_kind) THEN {"skipped_kind"}
    ELSE IF options.skip_existing THEN {"skipped_exists", "downloaded", "failed"}
    ELSE {"downloaded", "failed"}

\* the accounting of the outcomes
Accounted ==
    /\ Len(outcomes) = stats.total
    /\ stats.total = next_row /\ next_row <= Len(catalog.rows)
    /\ stats.total = stats.skipped_no_url + stats.skipped_kind + stats.skipped_exists
                        + stats.downloaded + stats.failed
    /\ stats.skipped_no_url = CountOf("skipped_no_url")
    /\ stats.skipped_kind = CountOf("skipped_kind")
    /\ stats.skipped_exists = CountOf("skipped_exists")
    /\ stats.downloaded = CountOf("downloaded")
    /\ stats.failed = CountOf("failed")
    /\ \A i \in Visited : outcomes[i] \in RuledOut(i)

\* C14 as stated: every visited row (every row counted in total whose handling
\* has ended) has exactly one outcome, the one of the first rule that applies,
\* total is the sum of the five counts, and the rows after an early stop are
\* counted nowhere.
C14_OneOutcomePerRow == dl_pc # "download" => Accounted

\* what holds of C14: the accounting is right wherever the handling of a row
\* ended in an outcome (it is not where an OSError ended the run)
C14_AccountedUnlessCrashed == dl_pc \notin {"download", "crashed"} => Accounted

\* the positions in the catalog of the rows that failed, and the k-th of them
FailedRows == {i \in Visited : outcomes[i] = "failed"}
NthFailed(k) == CHOOSE i \in FailedRows : Cardinality({j \in FailedRows : j <= i}) = k

\* C15: failed_downloads holds one entry per row whose outcome is failed, in
\* catalog order, with the doc_reference of the row, the URL that was fetched
\* and a non-empty error; a row without URL, a skipped and a downloaded row
\* have no entry; the number of entries is the failed count.
C15_FailureList ==
    /\ Len(failed_downloads) = Cardinality(FailedRows)
    /\ Len(failed_downloads) = stats.failed
    /\ \A k \in 1..Len(failed_downloads) :
          /\ k <= Cardinality(FailedRows)
          /\ LET row == catalog.rows[NthFailed(k)]
             IN  /\ failed_downloads[k].doc_reference = row.doc_reference
                 /\ failed_downloads[k].url = RowUrl(row)
                 /\ RowUrl(row) # ""
                 /\ failed_downloads[k].error # ""

\* C15 witness: a run over a row without URL and a document whose fetch timed
\* out: one entry, the document's
C15_Witness ==
    /\ dl_pc = "done"
    /\ outcomes = <<"skipped_no_url", "failed">>
    /\ Len(failed_downloads) = 1
    /\ failed_downloads[1].doc_reference = "r1"
    /\ failed_downloads[1].error = "Timeout: "

\* C16 as stated: with max_downloads = N given, N >= 0, the number of
\* successful downloads never exceeds N, and when it has reached N no fetch is
\* under way and no further row is visited.
C16_DownloadsWithinMax ==
    options.max_downloads.given
        => /\ stats.downloaded <= options.max_downloads.n
           /\ stats.downloaded >= options.max_downloads.n
                => dl_pc # "download" /\ ~MoreRows

\* what holds of C16: the same for N >= 1
C16_DownloadsWithinPositiveMax ==
    options.max_downloads.given /\ options.max_downloads.n >= 1
        => /\ stats.downloaded <= options.max_downloads.n
           /\ stats.downloaded >= options.max_downloads.n
                => dl_pc # "download" /\ ~MoreRows

\* the first run visited every row and downloaded it or found it on disk
FirstRunComplete ==
    /\ prev_stats.total = Len(catalog.rows)
    /\ prev_stats.downloaded + prev_stats.skipped_exists = prev_stats.total

\* C17 as stated: a second run with skip-existing, on the same catalog and the
\* files the first run left, downloads nothing and counts every row of the
\* catalog as skipped_exists.
C17_SecondRunAllSkipped ==
    run = "second" /\ dl_pc = "done" /\ options.skip_existing
        => /\ stats.downloaded = 0
           /\ stats.total = Len(catalog.rows)
           /\ stats.skipped_exists = stats.total

\* C17 amended: in the second run a row without URL is counted skipped_no_url
\* again and a row the allow-list excludes skipped_kind again; when the first
\* run visited every row and downloaded or skipped-as-existing each of them,
\* the second run issues no fetch, downloads nothing and counts every row of
\* the catalog as skipped_exists.
C17_SecondRunSkipsWhatExists ==
    run = "second" /\ options.skip_existing
        => /\ \A i \in Visited :
                /\ RowUrl(catalog.rows[i]) = "" => outcomes[i] = "skipped_no_url"
                /\ RowUrl(catalog.rows[i]) # "" /\ KindExcluded(options.file_kinds, catalog.rows[i].file_kind)
                      => outcomes[i] = "skipped_kind"
           /\ FirstRunComplete
                => /\ fetches = <<>> /\ dl_pc # "download"
                   /\ stats.downloaded = 0 /\ stats.failed = 0
                   /\ stats.skipped_exists = stats.total
                   /\ dl_pc = "done" => stats.total = Len(catalog.rows)

\* C17 witness: the first run downloaded the first document and skipped the
\* second, which has the same destination; the second run skipped both
C17_Witness ==
    /\ run = "second" /\ dl_pc = "done" /\ options.skip_existing
    /\ prev_stats.downloaded = 1 /\ prev_stats.skipped_exists = 1
    /\ stats.skipped_exists = 2
    /\ fetches = <<>>

\* C18 as stated: a download attempt that ends in an error (of the transport,
\* of the status, of the write) is recorded as failed and leaves no file at
\* the destination; a file at a destination holds a body that was fetched to
\* its end.
C18_NoFileAfterError ==
    /\ \A q \in DOMAIN files : files[q].whole
    /\ dl_pc # "download" /\ fetches # <<>>
          => /\ Len(outcomes) = stats.total
             /\ outcomes[Len(outcomes)] = "failed" => filepath \notin DOMAIN files
    /\ dl_raised # "" => filepath \notin DOMAIN files

\* what holds of C18: the same for the errors the except clause catches (the
\* RequestExceptions)
C18_NoFileAfterRequestError ==
    /\ dl_pc # "download" /\ dl_raised = "" /\ outcomes # <<>>
    /\ outcomes[Len(outcomes)] = "failed"
    => filepath \notin DOMAIN files

\* row i is landing-only: it has no final URL, only a landing URL
LandingOnly(i) == Strip(catalog.rows[i].final_url) = "" /\ Strip(catalog.rows[i].landing_url) # ""

\* C20 as stated: no fetch is issued for a landing-only row and no file is
\* saved for it.
C20_NoFetchForLandingOnly ==
    /\ dl_pc = "download" => ~LandingOnly(next_row)
    /\ \A i \in Visited : LandingOnly(i) => outcomes[i] \notin {"downloaded", "failed"}

(***************************************************************************)
(* Pacing of the remote calls.                                             *)
(***************************************************************************)
\* C21: the process sleeps between any two consecutive remote calls: no remote
\* call (registry page fetch, organisation lookup, URL probe, file fetch) follows
\* the call before it without a sleep in between.
C21_SleepBetweenRemoteCalls == net.gap # "none"

\* what the sleeps of the code do separate: a page fetch from the call before
\* it (fetch_docs sleeps before it asks for the next page), any call from an
\* answered organisation lookup before it, a file fetch from the one before it
C21_PagesAndDownloadsPaced == net.last \in {"page", "file"} => net.gap # "none"

(***************************************************************************)
(* Classifications per declared URL.                                       *)
(***************************************************************************)
\* the declared document URLs of the entries handled so far
DeclaredURLs == {entry_keys[j][3] : j \in Keyed}

\* C22: within one crawl classify_url is entered at most once per distinct
\* declared document URL: the calls made so far are no more than the distinct
\* declared URLs of the entries handled so far.
C22_OneClassificationPerURL == classify_calls <= Cardinality(DeclaredURLs)

\* classify_url is entered once per distinct key: the same declared URL under
\* another organisation or local plan is classified again
C22_OneClassificationPerKey ==
    classify_calls = Cardinality({entry_keys[j] : j \in Keyed})

(***************************************************************************)
(* The name and the place of a downloaded file.                            *)
(***************************************************************************)
\* the rows of this run that were downloaded and carry a final URL and the kind pdf
PdfDownloaded ==
    {i \in Visited : /\ outcomes[i] = "downloaded"
                     /\ catalog.rows[i].file_kind = "pdf"
                     /\ Strip(catalog.rows[i].final_url) # ""}

\* the last component of the final URL's path, percent-decoded
URLBasename(row) == unquote(Basename(UrlPath(Strip(row.final_url))))

SafeChild(path, dir) ==
    /\ StartsWith(path, dir \o "/")
    /\ Len(path) > Len(dir) + 1
    /\ \A k \in (Len(dir) + 2)..Len(path) : ~InChars(Char(path, k), Unsafe)

\* C27: every file under the downloads directory is the file of a row of the
\* catalog, lies directly in that row's plan directory, and its name holds
\* none of the unsafe characters.
C27_SafeDestination ==
    \A q \in DOMAIN files :
        \E i \in 1..Len(catalog.rows) :
            /\ q = PathOf(catalog.rows[i])
            /\ SafeChild(q, PlanDir(catalog.rows[i].local_plan))

\* the same for the rows whose reference and URL extension hold no unsafe
\* character: the parts that sanitize_filename treats are safe
C27_SafeWhenReferenceAndExtensionAre ==
    \A q \in DOMAIN files :
        \E i \in 1..Len(catalog.rows) :
            /\ q = PathOf(catalog.rows[i])
            /\ (/\ \A k \in 1..Len(catalog.rows[i].doc_reference) :
                        ~InChars(Char(catalog.rows[i].doc_reference, k), Unsafe)
                /\ \A k \in 1..Len(SplitExt(URLBasename(catalog.rows[i]))) :
                        ~InChars(Char(SplitExt(URLBasename(catalog.rows[i])), k), Unsafe))
               => SafeChild(q, PlanDir(catalog.rows[i].local_plan))

(***************************************************************************)
(* The failure log, shared destinations, files that were there before.     *)
(***************************************************************************)
\* C24: with failure logging enabled, when a run has completed the failure log
\* holds the failure list of that run, row for row, and nothing else.
C24_FailureLogOfThisRun ==
    dl_pc = "done" /\ options.log_failures /\ catalog.exists => failures_log.rows = failed_downloads

\* a run with at least one failure writes the log anew; a run without failure
\* leaves the log as it was
C24_FailureLogWrittenOnFailure ==
    dl_pc = "done" /\ options.log_failures /\ failed_downloads # <<>>
        => failures_log = FileOf(failed_downloads)

\* the rows of this run for which a destination was derived
Placed == {i \in Visited : outcomes[i] \in {"skipped_exists", "downloaded", "failed"}}

\* C25: in a run that started with an empty downloads directory no row is
\* counted skipped-already-exists and no two visited rows share a destination.
C25_OneRowPerDestination ==
    run = "first" =>
        /\ \A i \in Visited : outcomes[i] # "skipped_exists"
        /\ \A i, j \in Placed : i # j => PathOf(catalog.rows[i]) # PathOf(catalog.rows[j])

\* C26: a download attempt that does not succeed leaves every file that was
\* there before it as it was.
C26_FailedAttemptKeepsFiles ==
    [][dl_pc = "download" /\ stats'.downloaded = stats.downloaded
         => \A q \in DOMAIN files : q \in DOMAIN files' /\ files'[q] = files[q]]_vars

\* with skip_existing no attempt is made on a destination that exists
C26_NoAttemptOnExistingWhenSkipping ==
    dl_pc = "download" /\ options.skip_existing => filepath \notin DOMAIN files

====
